---- MODULE Spec2Model ----
(***************************************************************************)
(* Model of manager.py: the URL path-joining operator, the AuthManager     *)
(* credential model with its derived api_url and headers, and the          *)
(* RequestManager.request coroutine, one step per statement between its    *)
(* suspension points.                                                      *)
(*                                                                         *)
(* Python str values that are inspected character by character (URLs,      *)
(* endpoints, method names) are sequences of one-character strings.        *)
(* username and token are only tested for truthiness and copied, so they   *)
(* are atomic strings; None is Python's None object.                       *)
(***************************************************************************)
EXTENDS Integers, Sequences, FiniteSets, TLC

\* ---------------------------------------------------------------- bounds
MaxSlashes == 3   \* most slashes put at the end of a left / start of a right operand
MaxCalls == 2     \* concurrent request() invocations on one RequestManager

\* ------------------------------------------------------- Python primitives
None == "<None>"

\* bool(x) of an Optional[str]: None and "" are falsy
Truthy(x) == x # None /\ x # ""

RECURSIVE rstrip(_)
\* str.rstrip('/'): drop every trailing '/'
rstrip(s) ==
    IF s # <<>> /\ s[Len(s)] = "/" THEN rstrip(SubSeq(s, 1, Len(s) - 1)) ELSE s

RECURSIVE lstrip(_)
\* str.lstrip('/'): drop every leading '/'
lstrip(s) ==
    IF s # <<>> /\ s[1] = "/" THEN lstrip(SubSeq(s, 2, Len(s))) ELSE s

UpperCase == <<"A","B","C","D","E","F","G","H","I","J","K","L","M",
               "N","O","P","Q","R","S","T","U","V","W","X","Y","Z">>
LowerCase == <<"a","b","c","d","e","f","g","h","i","j","k","l","m",
               "n","o","p","q","r","s","t","u","v","w","x","y","z">>

\* str.lower(): each upper-case letter becomes its lower-case one
lower(s) ==
    [i \in 1..Len(s) |->
        IF \E k \in 1..Len(UpperCase) : UpperCase[k] = s[i]
        THEN LowerCase[CHOOSE k \in 1..Len(UpperCase) : UpperCase[k] = s[i]]
        ELSE s[i]]

\* ------------------------------------------------------------ class URL
\* Faulty variant of truediv: a plain join that strips nothing
truedivNoStrip(self, other) == self \o <<"/">> \o other

\* Faulty variant of truediv: the right operand keeps its leading slashes
truedivKeepLeading(self, other) == rstrip(self) \o <<"/">> \o other

\* URL.__truediv__(self, other)
truediv(self, other) == rstrip(self) \o <<"/">> \o lstrip(other)

\* ------------------------------------------------------ class AuthManager
api_prefix == <<"a","p","i","/","v","1">>

\* AuthManager.api_url, of the model object m
api_url(m) == m.base_url \o <<"/">> \o api_prefix

\* AuthManager.user_agent: user_agent.generate_user_agent() returns a fresh,
\* randomly generated string on every access; ua is the one drawn
UserAgents == {"Mozilla/5.0 (X11)", "Mozilla/5.0 (Windows)"}

\* AuthManager.headers(bearer), with ua the value self.user_agent produced
headers(m, bearer, ua) ==
    [k \in {"Content-Type", "Accept", "User-Agent"} |->
        CASE k = "Content-Type" -> <<"application/json">>
          [] k = "Accept"       -> <<"application/json">>
          [] k = "User-Agent"   -> <<ua>>]
    @@ (IF bearer THEN [k \in {"Authorization"} |-> <<"Bearer ", m.token>>]
                  ELSE <<>>)

\* The default of the base_url field
DefaultBaseUrl ==
    <<"h","t","t","p","s",":","/","/","a","p","i",".","u","r","l">>

\* No object constructed yet
NoObject == [username |-> None, token |-> None, base_url |-> <<>>]

\* pydantic's validation of the AuthManager fields: token is declared
\* `str = Field(...)`, a required str; any str, "" included, passes, None or a
\* missing argument raises ValidationError. username is Optional[str].
Validates(username, token, base_url) == token # None

\* The model object the constructor yields
NewModel(username, token, base_url) ==
    [username |-> username, token |-> token, base_url |-> base_url]

\* ------------------------------------------------- aiohttp, as used here
\* aiohttp.BasicAuth is a namedtuple (login, password, encoding): never empty,
\* so bool() of one is True; auth=None is the empty tuple here.
NoAuth == <<>>
BasicAuth(login, password) == <<login, password, "latin1">>
bool(a) == a # NoAuth

\* Attributes of a ClientSession that issue an HTTP request with the verb of
\* their name when called as (url, headers=, params=)
HttpVerbs == { <<"g","e","t">>, <<"p","o","s","t">>, <<"p","u","t">>,
               <<"p","a","t","c","h">>, <<"d","e","l","e","t","e">>,
               <<"h","e","a","d">>, <<"o","p","t","i","o","n","s">> }

\* Other public attributes of a ClientSession: close() takes no arguments,
\* closed is a bool property, request() needs (method, url); calling any of
\* them as (url, headers=, params=) raises TypeError
OtherAttrs == { <<"c","l","o","s","e">>, <<"c","l","o","s","e","d">>,
                <<"r","e","q","u","e","s","t">> }

\* getattr(session, name, session.get)
getattr(name) == IF name \in HttpVerbs \cup OtherAttrs THEN name ELSE <<"g","e","t">>

\* Responses the server may send: a status, a Content-Type and a body.
\* The session is created without raise_for_status, so no status raises.
Statuses == {200, 500}
Payloads == { <<"application/json", "[1]">>, <<"application/json", "[1">>,
              <<"text/html", "<html>">> }
Responses ==
    { [status |-> st, mimetype |-> p[1], body |-> p[2]] :
        st \in Statuses, p \in Payloads }

\* json.loads of the bodies that are JSON text
JsonText == {"[1]"}
loads(body) == IF body = "[1]" THEN <<1>> ELSE <<>>

NoResponse == [status |-> 0, mimetype |-> "", body |-> ""]
NoValue == <<"no value">>

\* response.json(): ContentTypeError unless the Content-Type is
\* application/json, then json.loads of the body: the decoded value or
\* JSONDecodeError
json(response) ==
    IF response.mimetype # "application/json"
    THEN [ok |-> FALSE, value |-> NoValue, error |-> "ContentTypeError"]
    ELSE IF response.body \notin JsonText
    THEN [ok |-> FALSE, value |-> NoValue, error |-> "JSONDecodeError"]
    ELSE [ok |-> TRUE, value |-> loads(response.body), error |-> None]

\* ------------------------------------------------------------------ state
Calls == 1..MaxCalls

VARIABLES
    auth,        \* the AuthManager the caller constructed, or NoObject
    manager,     \* the RequestManager built from it, or NoObject
    raised,      \* exceptions raised by the constructors so far
    call,        \* call[c]: the frame of invocation c of request()
    sessions,    \* sessions[i]: the i-th ClientSession created
    wire,        \* HTTP requests handed to the network
    operands,    \* URL composition: the strings being joined
    joined,      \* URL composition: the results computed so far
    step         \* URL composition: position in the sequence of joins

vars == <<auth, manager, raised, call, sessions, wire, operands, joined, step>>
reqVars == <<auth, manager, raised, call, sessions, wire>>
urlVars == <<operands, joined, step>>

IdleFrame ==
    [pc |-> "Idle", endpoint |-> <<>>, method |-> <<>>, url |-> <<>>,
     auth |-> NoAuth, headers |-> <<>>, session |-> 0, requester |-> <<>>,
     sent |-> 0, response |-> NoResponse, pending |-> None,
     result |-> NoValue, error |-> None]

\* n slashes
Slashes(n) == [i \in 1..n |-> "/"]

\* Inputs of the model
Usernames == {None, "", "alice"}
Tokens == {None, "", "T"}
BaseUrls == { DefaultBaseUrl \o Slashes(n) : n \in 0..MaxSlashes }
Endpoints == { <<"u">>, <<"/","u","/","1">>, <<"u","s","e","r","s","/","1">> }
Methods == { <<"G","E","T">>, <<"g","e","t">>, <<"P","o","s","t">>,
             <<"D","E","L","E","T","E">>, <<"X","P","A","T","C","H">>, <<>>,
             <<"c","l","o","s","e">>, <<"C","L","O","S","E","D">>,
             <<"r","e","q","u","e","s","t">> }

\* --------------------------------------------------------- construction
\* AuthManager(username=u, token=t, base_url=b)
Construct(u, t, b) ==
    /\ auth = NoObject
    /\ IF Validates(u, t, b)
       THEN auth' = NewModel(u, t, b) /\ UNCHANGED raised
       ELSE raised' = raised \cup {"ValidationError"} /\ UNCHANGED auth
    /\ UNCHANGED <<manager, call, sessions, wire, urlVars>>

\* RequestManager(auth): super().__init__ with the fields of auth
RequestManagerInit ==
    /\ auth # NoObject
    /\ manager = NoObject
    /\ IF Validates(auth.username, auth.token, auth.base_url)
       THEN manager' = NewModel(auth.username, auth.token, auth.base_url)
            /\ UNCHANGED raised
       ELSE raised' = raised \cup {"ValidationError"} /\ UNCHANGED manager
    /\ UNCHANGED <<auth, call, sessions, wire, urlVars>>

\* ------------------------------------------------ RequestManager.request
\* url = self.api_url / endpoint.lstrip('/')
ResolveUrl(m, endpoint) == truediv(api_url(m), lstrip(endpoint))

\* auth = BasicAuth(self.username, self.token) if self.username and self.token else None
SelectAuth(m) ==
    IF Truthy(m.username) /\ Truthy(m.token)
    THEN BasicAuth(m.username, m.token)
    ELSE NoAuth

\* Faulty variant of SelectHeaders: the bearer header is attached always
SelectHeadersAlwaysBearer(m, a, ua) == headers(m, TRUE, ua)

\* headers = self.headers(bearer=not bool(auth))
SelectHeaders(m, a, ua) == headers(m, ~bool(a), ua)

\* Faulty variant of ClientSession: one session kept and handed to every call
ClientSessionShared(ss, c, a) ==
    IF ss = <<>>
    THEN <<1, <<[owner |-> c, auth |-> a, closed |-> FALSE, users |-> {}]>> >>
    ELSE <<1, ss>>

\* ClientSession(auth=a), entered by call c: a session of its own, appended
\* to the sessions created so far; <<its index, the sessions after>>
ClientSession(ss, c, a) ==
    <<Len(ss) + 1,
      Append(ss, [owner |-> c, auth |-> a, closed |-> FALSE, users |-> {}])>>

\* requester = getattr(session, method.lower(), session.get)
SelectRequester(method) == getattr(lower(method))

\* Faulty variant of SessionExit: the session is closed on return only
SessionExitOnReturnOnly(ss, sid, pending) ==
    IF pending = None THEN [ss EXCEPT ![sid].closed = TRUE] ELSE ss

\* Leaving `async with ClientSession(...)`: __aexit__ closes the session
\* whether the body returned or raised (pending is the exception, or None)
SessionExit(ss, sid, pending) == [ss EXCEPT ![sid].closed = TRUE]

\* Faulty variant of Propagate: every exception is wrapped into one kind
PropagateWrapped(exc) == IF exc = None THEN None ELSE "RequestError"

\* What the caller receives of an exception raised in the body: there is no
\* try/except in request(), the exception propagates as it is
Propagate(exc) == exc

\* The call and line 73
Begin(c, endpoint, method) ==
    /\ manager # NoObject
    /\ call[c].pc = "Idle"
    /\ call' = [call EXCEPT ![c] = [@ EXCEPT
                   !.pc = "URLResolved", !.endpoint = endpoint,
                   !.method = method, !.url = ResolveUrl(manager, endpoint)]]
    /\ UNCHANGED <<auth, manager, raised, sessions, wire, urlVars>>

\* Line 74
ChooseAuth(c) ==
    /\ call[c].pc = "URLResolved"
    /\ call' = [call EXCEPT ![c] = [@ EXCEPT
                   !.pc = "AuthChosen", !.auth = SelectAuth(manager)]]
    /\ UNCHANGED <<auth, manager, raised, sessions, wire, urlVars>>

\* Line 75, with ua the string self.user_agent generates
BuildHeaders(c, ua) ==
    /\ call[c].pc = "AuthChosen"
    /\ call' = [call EXCEPT ![c] = [@ EXCEPT
                   !.pc = "Authenticated",
                   !.headers = SelectHeaders(manager, call[c].auth, ua)]]
    /\ UNCHANGED <<auth, manager, raised, sessions, wire, urlVars>>

\* Line 76, entering the session
OpenSession(c) ==
    /\ call[c].pc = "Authenticated"
    /\ LET made == ClientSession(sessions, c, call[c].auth) IN
         /\ sessions' = made[2]
         /\ call' = [call EXCEPT ![c] = [@ EXCEPT
                       !.pc = "SessionOpen", !.session = made[1]]]
    /\ UNCHANGED <<auth, manager, raised, wire, urlVars>>

\* Line 77
BindRequester(c) ==
    /\ call[c].pc = "SessionOpen"
    /\ call' = [call EXCEPT ![c] = [@ EXCEPT
                   !.pc = "RequesterBound",
                   !.requester = SelectRequester(call[c].method)]]
    /\ UNCHANGED <<auth, manager, raised, sessions, wire, urlVars>>

\* The request line 78 hands to the network when the requester is a verb
Issued(c) ==
    [call |-> c, session |-> call[c].session, verb |-> call[c].requester,
     url |-> call[c].url, headers |-> call[c].headers,
     auth |-> sessions[call[c].session].auth]

\* Line 78, the requester is a verb and the server answers
SendAnswered(c, response) ==
    /\ call[c].pc = "RequesterBound"
    /\ call[c].requester \in HttpVerbs
    /\ wire' = wire \cup {Issued(c)}
    /\ sessions' = [sessions EXCEPT ![call[c].session].users = @ \cup {c}]
    /\ call' = [call EXCEPT ![c] = [@ EXCEPT
                   !.pc = "Sent", !.sent = @ + 1,
                   !.response = response]]
    /\ UNCHANGED <<auth, manager, raised, urlVars>>

\* Line 78, the requester is a verb and the connection fails
SendFailed(c) ==
    /\ call[c].pc = "RequesterBound"
    /\ call[c].requester \in HttpVerbs
    /\ wire' = wire \cup {Issued(c)}
    /\ sessions' = [sessions EXCEPT ![call[c].session].users = @ \cup {c}]
    /\ call' = [call EXCEPT ![c] = [@ EXCEPT
                   !.pc = "Exiting", !.sent = @ + 1,
                   !.pending = "ClientConnectionError"]]
    /\ UNCHANGED <<auth, manager, raised, urlVars>>

\* Line 78, the requester is another attribute of the session: calling it
\* with (url, headers=, params=) raises TypeError and nothing is sent
CallNotAVerb(c) ==
    /\ call[c].pc = "RequesterBound"
    /\ call[c].requester \notin HttpVerbs
    /\ call' = [call EXCEPT ![c] = [@ EXCEPT
                   !.pc = "Exiting", !.pending = "TypeError"]]
    /\ UNCHANGED <<auth, manager, raised, sessions, wire, urlVars>>

\* Line 79: return await response.json()
Decode(c) ==
    /\ call[c].pc = "Sent"
    /\ LET j == json(call[c].response) IN
         call' = [call EXCEPT ![c] = [@ EXCEPT
                   !.pc = "Exiting", !.result = j.value, !.pending = j.error]]
    /\ UNCHANGED <<auth, manager, raised, sessions, wire, urlVars>>

\* Unwinding both `async with` blocks, then the caller has the outcome
Exit(c) ==
    /\ call[c].pc = "Exiting"
    /\ sessions' = SessionExit(sessions, call[c].session, call[c].pending)
    /\ call' = [call EXCEPT ![c] = [@ EXCEPT
                   !.pc = IF call[c].pending = None THEN "Decoded" ELSE "Failed",
                   !.error = Propagate(call[c].pending)]]
    /\ UNCHANGED <<auth, manager, raised, wire, urlVars>>

\* ------------------------------------------------------- URL composition
RootCores == { <<>>, <<"h">>, DefaultBaseUrl }
SegCores == { <<>>, <<"a">>, <<"b">>, <<"a","/","b">> }

NoOperands ==
    [rootCore |-> <<>>, rootTrail |-> 0,
     aLead |-> 0, aCore |-> <<>>, aTrail |-> 0,
     bLead |-> 0, bCore |-> <<>>, bTrail |-> 0]
NoJoins ==
    [ra |-> <<>>, rab |-> <<>>, ab |-> <<>>, r_ab |-> <<>>,
     api |-> <<>>, target |-> <<>>]

\* The three strings: a root, and two segments a and b
Root == operands.rootCore \o Slashes(operands.rootTrail)
SegA == Slashes(operands.aLead) \o operands.aCore \o Slashes(operands.aTrail)
SegB == Slashes(operands.bLead) \o operands.bCore \o Slashes(operands.bTrail)

\* root / a
JoinFirst ==
    /\ step = 0
    /\ joined' = [joined EXCEPT !.ra = truediv(Root, SegA)]
    /\ step' = 1
    /\ UNCHANGED <<operands, reqVars>>

\* (root / a) / b
JoinSecond ==
    /\ step = 1
    /\ joined' = [joined EXCEPT !.rab = truediv(joined.ra, SegB)]
    /\ step' = 2
    /\ UNCHANGED <<operands, reqVars>>

\* a / b
JoinInner ==
    /\ step = 2
    /\ joined' = [joined EXCEPT !.ab = truediv(SegA, SegB)]
    /\ step' = 3
    /\ UNCHANGED <<operands, reqVars>>

\* root / (a / b)
JoinOuter ==
    /\ step = 3
    /\ joined' = [joined EXCEPT !.r_ab = truediv(Root, joined.ab)]
    /\ step' = 4
    /\ UNCHANGED <<operands, reqVars>>

\* api_url of a model whose base_url is root
ApiRoot ==
    /\ step = 4
    /\ joined' = [joined EXCEPT !.api = api_url(NewModel(None, "T", Root))]
    /\ step' = 5
    /\ UNCHANGED <<operands, reqVars>>

\* The url request() resolves for endpoint a on that model
Target ==
    /\ step = 5
    /\ joined' = [joined EXCEPT
                    !.target = ResolveUrl(NewModel(None, "T", Root), SegA)]
    /\ step' = 6
    /\ UNCHANGED <<operands, reqVars>>

\* --------------------------------------------------------- specifications
InitRequests ==
    /\ auth = NoObject
    /\ manager = NoObject
    /\ raised = {}
    /\ call = [c \in Calls |-> IdleFrame]
    /\ sessions = <<>>
    /\ wire = {}

Init ==
    /\ InitRequests
    /\ operands = NoOperands
    /\ joined = NoJoins
    /\ step = 0

\* Inputs of the concurrent specification: one configuration with a username
\* and one without, a verb and a non-verb attribute as method, one user agent,
\* and every response but the error statuses with an undecodable body
FewUsernames == {None, "alice"}
FewTokens == {None, "T"}
FewMethods == { <<"G","E","T">>, <<"c","l","o","s","e">> }
FewUserAgents == {"Mozilla/5.0 (X11)"}
FewResponses == { r \in Responses : r.status = 200 \/ r.body \in JsonText }

Next ==
    \/ \E u \in FewUsernames, t \in FewTokens : Construct(u, t, DefaultBaseUrl)
    \/ RequestManagerInit
    \/ \E c \in Calls, m \in FewMethods : Begin(c, <<"u">>, m)
    \/ \E c \in Calls : ChooseAuth(c)
    \/ \E c \in Calls, ua \in FewUserAgents : BuildHeaders(c, ua)
    \/ \E c \in Calls : OpenSession(c)
    \/ \E c \in Calls : BindRequester(c)
    \/ \E c \in Calls, r \in FewResponses : SendAnswered(c, r)
    \/ \E c \in Calls : SendFailed(c)
    \/ \E c \in Calls : CallNotAVerb(c)
    \/ \E c \in Calls : Decode(c)
    \/ \E c \in Calls : Exit(c)

\* Concurrent request() calls on one RequestManager, interleaved at every
\* statement
Spec == Init /\ [][Next]_vars

FirstCall == CHOOSE c \in Calls : \A d \in Calls : c <= d

NextCall ==
    \/ \E u \in Usernames, t \in Tokens, b \in BaseUrls : Construct(u, t, b)
    \/ RequestManagerInit
    \/ \E e \in Endpoints, m \in Methods : Begin(FirstCall, e, m)
    \/ ChooseAuth(FirstCall)
    \/ \E ua \in UserAgents : BuildHeaders(FirstCall, ua)
    \/ OpenSession(FirstCall)
    \/ BindRequester(FirstCall)
    \/ \E r \in Responses : SendAnswered(FirstCall, r)
    \/ SendFailed(FirstCall)
    \/ CallNotAVerb(FirstCall)
    \/ Decode(FirstCall)
    \/ Exit(FirstCall)

\* One request() call, over every configuration and input
SpecCall == Init /\ [][NextCall]_vars

InitURL ==
    /\ InitRequests
    /\ operands \in
         [rootCore : RootCores, rootTrail : 0..MaxSlashes,
          aLead : 0..MaxSlashes, aCore : SegCores, aTrail : 0..MaxSlashes,
          bLead : 0..MaxSlashes, bCore : SegCores, bTrail : 0..1]
    /\ joined = NoJoins
    /\ step = 0

NextURL ==
    \/ JoinFirst
    \/ JoinSecond
    \/ JoinInner
    \/ JoinOuter
    \/ ApiRoot
    \/ Target

\* The URL operator and api_url applied to bounded operands
SpecURL == InitURL /\ [][NextURL]_vars

\* ----------------------------------------------------------------- claims
Done(c) == call[c].pc \in {"Decoded", "Failed"}
HeadersBuilt(c) == call[c].pc \notin {"Idle", "URLResolved", "AuthChosen"}
Get == <<"g","e","t">>

\* C1: on a manager whose token is non-empty, once a call has built its
\* headers exactly one mechanism carries the token: with a non-empty username
\* the session's auth is BasicAuth(username, token) and the headers have no
\* Authorization entry; otherwise there is no auth and the headers carry
\* Authorization = "Bearer " + token. The same holds of every request on the
\* wire.
ExactlyOneAuthMechanism ==
    LET Carries(a, h) ==
          IF Truthy(manager.username)
          THEN /\ a = BasicAuth(manager.username, manager.token)
               /\ "Authorization" \notin DOMAIN h
          ELSE /\ a = NoAuth
               /\ "Authorization" \in DOMAIN h
               /\ h["Authorization"] = <<"Bearer ", manager.token>>
    IN  Truthy(manager.token) =>
          /\ \A c \in Calls : HeadersBuilt(c) => Carries(call[c].auth, call[c].headers)
          /\ \A w \in wire : Carries(w.auth, w.headers)

\* C1 witness: a request went out with Basic credentials and no bearer header
BasicRequestSent ==
    \E w \in wire :
      /\ w.auth = BasicAuth("alice", "T")
      /\ DOMAIN w.headers = {"Content-Type", "Accept", "User-Agent"}

\* C2: api_url is base_url without its trailing slashes, one '/', and the
\* prefix api/v1; the url of a request is that, one '/', and the endpoint
\* without its leading slashes.
ApiRootNormalised ==
    LET base == operands.rootCore
        rest == IF operands.aCore = <<>> THEN <<>>
                ELSE operands.aCore \o Slashes(operands.aTrail)
    IN  /\ step >= 5 => joined.api = base \o <<"/">> \o api_prefix
        /\ step >= 6 =>
             joined.target = base \o <<"/">> \o api_prefix \o <<"/">> \o rest

\* C3: no AuthManager or RequestManager with an empty token exists, and no
\* request is ever sent for one.
NoEmptyTokenAuthority ==
    /\ auth # NoObject => Truthy(auth.token)
    /\ manager # NoObject => Truthy(manager.token)
    /\ wire # {} => Truthy(manager.token)

\* C4: the verb is selected from the method case-insensitively, and a method
\* that is no HTTP verb results in a GET request: once line 78 has run, the
\* call has issued a request, with the lower-cased method as verb when that is
\* a verb and with get otherwise.
UnsupportedMethodFallsBackToGet ==
    \A c \in Calls :
      call[c].pc \in {"Sent", "Exiting", "Decoded", "Failed"} =>
        \E w \in wire :
          /\ w.call = c
          /\ w.verb = IF lower(call[c].method) \in HttpVerbs
                      THEN lower(call[c].method) ELSE Get

\* C5: a call that has completed, by returning or by raising at send or at
\* decoding, has its session closed; when no call is in progress no session
\* is open.
SessionClosedOnEveryExit ==
    /\ \A c \in Calls :
         Done(c) => /\ call[c].session \in DOMAIN sessions
                    /\ sessions[call[c].session].closed
    /\ (\A c \in Calls : call[c].pc = "Idle" \/ Done(c)) =>
         \A i \in DOMAIN sessions : sessions[i].closed

\* C5 witness: one call has failed at send and one at decoding, and the
\* session of each is closed
AllExitPathsTaken ==
    /\ \E c \in Calls : call[c].pc = "Failed" /\ call[c].error = "ClientConnectionError"
    /\ \E c \in Calls : call[c].pc = "Failed" /\ call[c].error = "JSONDecodeError"
    /\ Len(sessions) = 2
    /\ \A i \in DOMAIN sessions : sessions[i].closed

NoSharedMutableState ==
    /\ [](\A c, d \in Calls :
            (c # d /\ call[c].session # 0 /\ call[d].session # 0) =>
               call[c].session # call[d].session)
    /\ [](\A i \in DOMAIN sessions : sessions[i].users \subseteq {sessions[i].owner})
    /\ [](\A w \in wire : sessions[w.session].owner = w.call)
    /\ [][/\ auth # NoObject => auth' = auth
          /\ manager # NoObject => manager' = manager]_vars

\* C7 witness: two calls hold open sessions at once and both have sent
TwoSessionsInUse ==
    \E c, d \in Calls :
      /\ c # d
      /\ call[c].pc = "Sent" /\ call[d].pc = "Sent"
      /\ ~sessions[call[c].session].closed
      /\ ~sessions[call[d].session].closed

\* C8: for a left operand core + 0..MaxSlashes slashes and a right operand
\* 0..MaxSlashes slashes + rest, left / right is core, one '/', rest.
JoinPathOneSeparator ==
    LET rest == IF operands.aCore = <<>> THEN <<>>
                ELSE operands.aCore \o Slashes(operands.aTrail)
    IN  step >= 1 => joined.ra = operands.rootCore \o <<"/">> \o rest

\* C8 witness: three slashes on each side of the joint have been joined
JoinedThreeSlashes ==
    /\ step >= 1
    /\ operands.rootCore = DefaultBaseUrl /\ operands.rootTrail = 3
    /\ operands.aCore = <<"a","/","b">> /\ operands.aLead = 3
    /\ joined.ra = DefaultBaseUrl \o <<"/","a","/","b">> \o Slashes(operands.aTrail)

\* C9: (root / a) / b = root / (a / b), for segments with leading and
\* trailing slashes; and a = "a", b = "b" gives a / b = "a/b".
JoinPathAssociative ==
    /\ step >= 4 => joined.rab = joined.r_ab
    /\ (step >= 3 /\ SegA = <<"a">> /\ SegB = <<"b">>) =>
          joined.ab = <<"a","/","b">>

\* C9 witness: both groupings have been computed for segments with slashes
\* on both sides
BothGroupingsJoined ==
    /\ step >= 4
    /\ operands.aLead > 0 /\ operands.aTrail > 0 /\ operands.aCore = <<"a">>
    /\ operands.bLead > 0 /\ operands.bCore = <<"b">>
    /\ operands.rootTrail > 0
    /\ joined.rab = operands.rootCore \o <<"/","a","/","b">> \o Slashes(operands.bTrail)

\* C10: the stages come in the order Idle, URL-Resolved, Authenticated, Sent,
\* Decoded or Failed: the url and the auth mode are fixed before the session
\* is opened, a session exists only from then on, a completed call has sent
\* exactly one request, and a call that has a response or has completed went
\* through Sent.
OneRequestPerCallInOrder ==
    \A c \in Calls :
      /\ call[c].pc # "Idle" =>
           call[c].url = ResolveUrl(manager, call[c].endpoint)
      /\ call[c].session # 0 =>
           /\ HeadersBuilt(c) /\ call[c].pc # "Authenticated"
           /\ call[c].auth = SelectAuth(manager)
           /\ sessions[call[c].session].auth = call[c].auth
      /\ call[c].sent <= 1
      /\ call[c].sent = 1 => call[c].session # 0
      /\ Done(c) => call[c].sent = 1

====
